---- MODULE Spec2Model ----
(***************************************************************************)
(* Model of GraphRouteFinder (src/miniproject.py): the adjacency mapping   *)
(* self.graph, the edit operations add_edge / remove_edge with their GUI   *)
(* handlers, and dijkstra with its path reconstruction.                    *)
(*                                                                         *)
(* Python strings are sequences of one-character strings, so that          *)
(* strip(), upper(), float() and the string order used by heapq on ties    *)
(* are computed and not assumed.  Weights are integers: float(weight_str)  *)
(* is modelled on decimal integer literals only (no fraction, exponent,    *)
(* "inf" or "nan"), and sums of weights do not overflow.  Inf stands for   *)
(* float('inf'), the initial tentative distance.                           *)
(***************************************************************************)
EXTENDS Integers, Sequences, FiniteSets, TLC

VARIABLES graph, edits, last, run

vars == <<graph, edits, last, run>>

(* ----------------------------- bounds --------------------------------- *)

\* number of add_edge / remove_edge calls explored from the default graph
MaxEdits == 2

\* the same, in the behaviours checked for termination
MaxFairEdits == 1

(* ----------------------------- strings -------------------------------- *)

A == <<"A">>
B == <<"B">>
C == <<"C">>
D == <<"D">>
E == <<"E">>
F == <<"F">>
G == <<"G">>

\* Python's None (parent[node] = None, step is None); differs from every label
None == <<"None">>

\* float('inf')
Inf == 1000000

\* code point of a character (ord), for the characters the model uses
Ord(c) ==
    CASE c = " " -> 32
      [] c = "-" -> 45
      [] c = "0" -> 48
      [] c = "1" -> 49
      [] c = "2" -> 50
      [] c = "A" -> 65
      [] c = "B" -> 66
      [] c = "C" -> 67
      [] c = "D" -> 68
      [] c = "E" -> 69
      [] c = "F" -> 70
      [] c = "G" -> 71
      [] c = "a" -> 97
      [] c = "g" -> 103
      [] c = "x" -> 120

\* str < str: lexicographic by code point
StrLess(s, t) ==
    \E i \in 1..(Len(s) + 1) :
        /\ \A j \in 1..(i - 1) : j <= Len(t) /\ s[j] = t[j]
        /\ \/ i = Len(s) + 1 /\ Len(t) >= i
           \/ i <= Len(s) /\ i <= Len(t) /\ Ord(s[i]) < Ord(t[i])

\* str.upper(), character by character
UpperChar(c) ==
    IF Ord(c) >= 97 /\ Ord(c) <= 122
    THEN CASE c = "a" -> "A" [] c = "g" -> "G" [] c = "x" -> "X"
    ELSE c

Upper(s) == [i \in 1..Len(s) |-> UpperChar(s[i])]

\* str.strip(): drop leading and trailing whitespace
Strip(s) ==
    LET keep == {i \in 1..Len(s) : s[i] # " "}
    IN
    IF keep = {} THEN <<>>
    ELSE LET lo == CHOOSE i \in keep : \A j \in keep : i <= j
             hi == CHOOSE i \in keep : \A j \in keep : j <= i
         IN  SubSeq(s, lo, hi)

IsDigit(c) == Ord(c) >= 48 /\ Ord(c) <= 57

\* float(s) raises ValueError unless s is a number; decimal integers here
IsFloat(s) ==
    LET t == Strip(s)
        d == IF t # <<>> /\ t[1] = "-" THEN Tail(t) ELSE t
    IN  d # <<>> /\ \A i \in 1..Len(d) : IsDigit(d[i])

RECURSIVE DigitsVal(_)
DigitsVal(d) ==
    IF d = <<>> THEN 0
    ELSE 10 * DigitsVal(SubSeq(d, 1, Len(d) - 1)) + (Ord(d[Len(d)]) - 48)

\* float(s) for an s with IsFloat(s)
FloatOf(s) ==
    LET t == Strip(s)
    IN  IF t[1] = "-" THEN 0 - DigitsVal(Tail(t)) ELSE DigitsVal(t)

(* ------------------------------ graph --------------------------------- *)

\* {} as a dict
EmptyDict == <<>>

\* d[k] = v
SetKey(d, k, v) == [x \in DOMAIN d \cup {k} |-> IF x = k THEN v ELSE d[x]]

\* del d[k]
DelKey(d, k) == [x \in DOMAIN d \ {k} |-> d[x]]

DefaultGraph ==
    (A :> (B :> 4 @@ C :> 2)) @@
    (B :> (A :> 4 @@ C :> 1 @@ D :> 5)) @@
    (C :> (A :> 2 @@ B :> 1 @@ D :> 8 @@ E :> 10)) @@
    (D :> (B :> 5 @@ C :> 8 @@ E :> 2 @@ F :> 6)) @@
    (E :> (C :> 10 @@ D :> 2 @@ F :> 2)) @@
    (F :> (D :> 6 @@ E :> 2))

\* add_edge without line 92, the mirrored entry
add_edge_one_way(g, node1, node2, weight) ==
    LET g1 == IF node1 \notin DOMAIN g THEN SetKey(g, node1, EmptyDict) ELSE g
        g2 == IF node2 \notin DOMAIN g1 THEN SetKey(g1, node2, EmptyDict) ELSE g1
    IN  [g2 EXCEPT ![node1] = SetKey(@, node2, weight)]

add_edge(g, node1, node2, weight) ==
    LET g1 == IF node1 \notin DOMAIN g THEN SetKey(g, node1, EmptyDict) ELSE g
        g2 == IF node2 \notin DOMAIN g1 THEN SetKey(g1, node2, EmptyDict) ELSE g1
        g3 == [g2 EXCEPT ![node1] = SetKey(@, node2, weight)]
    IN  [g3 EXCEPT ![node2] = SetKey(@, node1, weight)]

\* remove_edge without lines 98-99, the mirrored deletion
remove_edge_one_way(g, node1, node2) ==
    IF node1 \in DOMAIN g /\ node2 \in DOMAIN g[node1]
    THEN [g EXCEPT ![node1] = DelKey(@, node2)] ELSE g

remove_edge(g, node1, node2) ==
    LET g1 == IF node1 \in DOMAIN g /\ node2 \in DOMAIN g[node1]
              THEN [g EXCEPT ![node1] = DelKey(@, node2)] ELSE g
    IN  IF node2 \in DOMAIN g1 /\ node1 \in DOMAIN g1[node2]
        THEN [g1 EXCEPT ![node2] = DelKey(@, node1)] ELSE g1

(* ----------------------------- dijkstra ------------------------------- *)

\* The frame of one dijkstra(start, end) call: its locals, the place it has
\* reached (pc) and, once pc = "done", the returned pair ret = <<dist, path>>.
\* nadd counts the visited.add(node) calls made so far.
Idle ==
    [pc |-> "idle", start |-> None, end |-> None, pq |-> {}, dist |-> <<>>,
     parent |-> <<>>, visited |-> {}, path |-> <<>>, step |-> None,
     nadd |-> 0, ret |-> <<0, <<>>>>]

\* tuple order of heapq on (distance, node)
EntryLess(x, y) == x[1] < y[1] \/ (x[1] = y[1] /\ StrLess(x[2], y[2]))

\* a pop of the largest entry instead of the smallest
HeapMax(pq) == CHOOSE x \in pq : \A y \in pq \ {x} : EntryLess(y, x)

\* the entry heapq.heappop(pq) returns
HeapMin(pq) == CHOOSE x \in pq : \A y \in pq \ {x} : EntryLess(x, y)

\* DCall without line 49, dist[start] = 0
DCallNoZero(g, start, end) ==
    IF start \notin DOMAIN g \/ end \notin DOMAIN g
    THEN [Idle EXCEPT !.pc = "done", !.start = start, !.end = end,
                      !.ret = <<Inf, <<>>>>]
    ELSE [Idle EXCEPT !.pc = "loop", !.start = start, !.end = end,
                      !.pq = {<<0, start>>},
                      !.dist = [n \in DOMAIN g |-> Inf],
                      !.parent = [n \in DOMAIN g |-> None]]

\* lines 44-51: the membership test and the initial locals
DCall(g, start, end) ==
    IF start \notin DOMAIN g \/ end \notin DOMAIN g
    THEN [Idle EXCEPT !.pc = "done", !.start = start, !.end = end,
                      !.ret = <<Inf, <<>>>>]
    ELSE [Idle EXCEPT !.pc = "loop", !.start = start, !.end = end,
                      !.pq = {<<0, start>>},
                      !.dist = [n \in DOMAIN g |-> IF n = start THEN 0 ELSE Inf],
                      !.parent = [n \in DOMAIN g |-> None]]

\* LoopIter with new_dist = weight, the distance so far left out
LoopIterNoSum(g, f) ==
    IF f.pq = {}
    THEN [f EXCEPT !.pc = "walk", !.step = f.end]
    ELSE
      LET top       == HeapMin(f.pq)
          node      == top[2]
          rest      == f.pq \ {top}
          visited   == f.visited \cup {node}
          better    == {nb \in DOMAIN g[node] :
                           nb \notin visited /\ g[node][nb] < f.dist[nb]}
      IN  IF node \in f.visited
          THEN [f EXCEPT !.pq = rest]
          ELSE IF node = f.end
          THEN [f EXCEPT !.pq = rest, !.visited = visited, !.nadd = @ + 1,
                         !.pc = "walk", !.step = f.end]
          ELSE [f EXCEPT
                  !.pq = rest \cup {<<g[node][nb], nb>> : nb \in better},
                  !.visited = visited,
                  !.nadd = @ + 1,
                  !.dist = [n \in DOMAIN @ |->
                              IF n \in better THEN g[node][n] ELSE @[n]],
                  !.parent = [n \in DOMAIN @ |->
                              IF n \in better THEN node ELSE @[n]]]

\* LoopIter without lines 56-57 and the test of line 65: a popped node is
\* processed whether visited or not
LoopIterNoStale(g, f) ==
    IF f.pq = {}
    THEN [f EXCEPT !.pc = "walk", !.step = f.end]
    ELSE
      LET top       == HeapMin(f.pq)
          curr_dist == top[1]
          node      == top[2]
          rest      == f.pq \ {top}
          visited   == f.visited \cup {node}
          better    == {nb \in DOMAIN g[node] :
                           curr_dist + g[node][nb] < f.dist[nb]}
      IN  IF node = f.end
          THEN [f EXCEPT !.pq = rest, !.visited = visited, !.nadd = @ + 1,
                         !.pc = "walk", !.step = f.end]
          ELSE [f EXCEPT
                  !.pq = rest \cup {<<curr_dist + g[node][nb], nb>> : nb \in better},
                  !.visited = visited,
                  !.nadd = @ + 1,
                  !.dist = [n \in DOMAIN @ |->
                              IF n \in better THEN curr_dist + g[node][n] ELSE @[n]],
                  !.parent = [n \in DOMAIN @ |->
                              IF n \in better THEN node ELSE @[n]]]

\* lines 53-74: one iteration of `while pq`, or the exit from the loop
LoopIter(g, f) ==
    IF f.pq = {}
    THEN [f EXCEPT !.pc = "walk", !.step = f.end]
    ELSE
      LET top       == HeapMin(f.pq)
          curr_dist == top[1]
          node      == top[2]
          rest      == f.pq \ {top}
          visited   == f.visited \cup {node}
          better    == {nb \in DOMAIN g[node] :
                           /\ nb \notin visited
                           /\ curr_dist + g[node][nb] < f.dist[nb]}
      IN  IF node \in f.visited
          THEN [f EXCEPT !.pq = rest]
          ELSE IF node = f.end
          THEN [f EXCEPT !.pq = rest, !.visited = visited, !.nadd = @ + 1,
                         !.pc = "walk", !.step = f.end]
          ELSE [f EXCEPT
                  !.pq = rest \cup {<<curr_dist + g[node][nb], nb>> : nb \in better},
                  !.visited = visited,
                  !.nadd = @ + 1,
                  !.dist = [n \in DOMAIN @ |->
                              IF n \in better THEN curr_dist + g[node][n] ELSE @[n]],
                  !.parent = [n \in DOMAIN @ |->
                              IF n \in better THEN node ELSE @[n]]]

\* path.reverse()
Reverse(s) == [i \in 1..Len(s) |-> s[Len(s) + 1 - i]]

\* WalkIter without path.reverse()
WalkIterNoReverse(f) ==
    IF f.step # None
    THEN [f EXCEPT !.path = Append(@, f.step), !.step = f.parent[f.step]]
    ELSE [f EXCEPT !.pc = "done",
                   !.ret = IF f.dist[f.end] = Inf
                           THEN <<Inf, <<>>>>
                           ELSE <<f.dist[f.end], f.path>>]

\* WalkIter without lines 80-81, the test for an unreached end
WalkIterKeepPath(f) ==
    IF f.step # None
    THEN [f EXCEPT !.path = Append(@, f.step), !.step = f.parent[f.step]]
    ELSE [f EXCEPT !.pc = "done",
                   !.path = Reverse(@),
                   !.ret = <<f.dist[f.end], Reverse(f.path)>>]

\* lines 75-82: one iteration of `while step is not None`, or the return
WalkIter(f) ==
    IF f.step # None
    THEN [f EXCEPT !.path = Append(@, f.step), !.step = f.parent[f.step]]
    ELSE [f EXCEPT !.pc = "done",
                   !.path = Reverse(@),
                   !.ret = IF f.dist[f.end] = Inf
                           THEN <<Inf, <<>>>>
                           ELSE <<f.dist[f.end], Reverse(f.path)>>]

(* --------------------------- input domains ---------------------------- *)

\* labels passed to add_edge / remove_edge; G is not a node of the default graph
EditNodes == {A, C, F, G}

\* weights passed to add_edge, which does not check them
CoreWeights == {0 - 1, 0, 2}

\* contents of the "Node 1" / "Node 2" entry fields
RawNodes == {<<" ">>, <<"a">>, <<"C", " ">>, <<" ", "g">>}

\* contents of the "Weight" entry field
WeightStrs == {<<"x">>, <<"-", "1">>, <<"0">>, <<" ", "2">>}

\* identifiers passed to dijkstra
QueryNodes == {A, B, C, D, E, F, G}

(* ------------------------------ state --------------------------------- *)

\* graph: self.graph.  run: the frame of the dijkstra call in progress, Idle
\* when there is none.  last: the most recent call and its outcome (the
\* message box a handler showed; the progress of a dijkstra call).
\* edits: the number of add_edge / remove_edge calls made.
Call(op, msg) == [op |-> op, msg |-> msg]

Init ==
    /\ graph = DefaultGraph
    /\ edits = 0
    /\ last = Call("init", "")
    /\ run = Idle

(* ------------------------------ edits --------------------------------- *)

\* a direct call of add_edge (lines 84-92)
AddEdge(node1, node2, weight) ==
    /\ run.pc = "idle"
    /\ edits < MaxEdits
    /\ graph' = add_edge(graph, node1, node2, weight)
    /\ edits' = edits + 1
    /\ last' = Call("add_edge", "")
    /\ UNCHANGED run

\* a direct call of remove_edge (lines 94-99)
RemoveEdge(node1, node2) ==
    /\ run.pc = "idle"
    /\ edits < MaxEdits
    /\ graph' = remove_edge(graph, node1, node2)
    /\ edits' = edits + 1
    /\ last' = Call("remove_edge", "")
    /\ UNCHANGED run

\* AddEdgeOutcome with `weight < 0` for `weight <= 0`
AddEdgeOutcomeStrict(node1, node2, weight_str) ==
    IF node1 = <<>> \/ node2 = <<>> THEN "Please enter both node names"
    ELSE IF ~IsFloat(weight_str) THEN "Weight must be a number"
    ELSE IF FloatOf(weight_str) < 0 THEN "Weight must be positive"
    ELSE "Edge added successfully"

\* the message box add_edge_handler ends with (lines 287-304)
AddEdgeOutcome(node1, node2, weight_str) ==
    IF node1 = <<>> \/ node2 = <<>> THEN "Please enter both node names"
    ELSE IF ~IsFloat(weight_str) THEN "Weight must be a number"
    ELSE IF FloatOf(weight_str) <= 0 THEN "Weight must be positive"
    ELSE "Edge added successfully"

\* lines 281-304
AddEdgeHandler(raw1, raw2, raw_weight) ==
    LET node1      == Upper(Strip(raw1))
        node2      == Upper(Strip(raw2))
        weight_str == Strip(raw_weight)
        msg        == AddEdgeOutcome(node1, node2, weight_str)
    IN  /\ run.pc = "idle"
        /\ last' = Call("add_edge_handler", msg)
        /\ IF msg = "Edge added successfully"
           THEN /\ edits < MaxEdits
                /\ graph' = add_edge(graph, node1, node2, FloatOf(weight_str))
                /\ edits' = edits + 1
           ELSE UNCHANGED <<graph, edits>>
        /\ UNCHANGED run

\* the message box remove_edge_handler ends with (lines 311-326)
RemoveEdgeOutcome(g, node1, node2) ==
    IF node1 = <<>> \/ node2 = <<>> THEN "Please enter both node names"
    ELSE IF node1 \notin DOMAIN g \/ node2 \notin DOMAIN g
         THEN "One or both nodes do not exist"
    ELSE IF node2 \notin DOMAIN g[node1] THEN "No edge exists"
    ELSE "Edge removed successfully"

\* lines 306-326
RemoveEdgeHandler(raw1, raw2) ==
    LET node1 == Upper(Strip(raw1))
        node2 == Upper(Strip(raw2))
        msg   == RemoveEdgeOutcome(graph, node1, node2)
    IN  /\ run.pc = "idle"
        /\ last' = Call("remove_edge_handler", msg)
        /\ IF msg = "Edge removed successfully"
           THEN /\ edits < MaxEdits
                /\ graph' = remove_edge(graph, node1, node2)
                /\ edits' = edits + 1
           ELSE UNCHANGED <<graph, edits>>
        /\ UNCHANGED run

(* ------------------------------ queries ------------------------------- *)

\* dijkstra(start, end) is called
FindCall(start, end) ==
    /\ run.pc = "idle"
    /\ run' = DCall(graph, start, end)
    /\ last' = Call("dijkstra", "running")
    /\ UNCHANGED <<graph, edits>>

\* one iteration of the frontier loop
FindLoop ==
    /\ run.pc = "loop"
    /\ run' = LoopIter(graph, run)
    /\ UNCHANGED <<graph, edits, last>>

\* one iteration of the parent-pointer walk
FindWalk ==
    /\ run.pc = "walk"
    /\ run' = WalkIter(run)
    /\ UNCHANGED <<graph, edits, last>>

\* the caller has the pair run.ret; the frame is gone
FindReturn ==
    /\ run.pc = "done"
    /\ run' = Idle
    /\ last' = Call("dijkstra", "returned")
    /\ UNCHANGED <<graph, edits>>

(* --------------------------- specifications --------------------------- *)

Next ==
    \/ \E n1 \in EditNodes, n2 \in EditNodes, w \in CoreWeights : AddEdge(n1, n2, w)
    \/ \E n1 \in EditNodes, n2 \in EditNodes : RemoveEdge(n1, n2)
    \/ \E r1 \in RawNodes, r2 \in RawNodes, ws \in WeightStrs : AddEdgeHandler(r1, r2, ws)
    \/ \E r1 \in RawNodes, r2 \in RawNodes : RemoveEdgeHandler(r1, r2)
    \/ \E s \in QueryNodes, e \in QueryNodes : FindCall(s, e)
    \/ FindLoop
    \/ FindWalk
    \/ FindReturn

Spec == Init /\ [][Next]_vars

\* The behaviours checked for termination: at most MaxFairEdits edits, and a
\* call that was made runs on (the interpreter executes the loops of dijkstra
\* until the call returns; no handler runs meanwhile).
FairNext ==
    \/ \E n1 \in EditNodes, n2 \in EditNodes, w \in CoreWeights :
          edits < MaxFairEdits /\ AddEdge(n1, n2, w)
    \/ \E n1 \in EditNodes, n2 \in EditNodes :
          edits < MaxFairEdits /\ RemoveEdge(n1, n2)
    \/ \E r1 \in RawNodes, r2 \in RawNodes, ws \in WeightStrs :
          AddEdgeHandler(r1, r2, ws) /\ edits' <= MaxFairEdits
    \/ \E r1 \in RawNodes, r2 \in RawNodes :
          RemoveEdgeHandler(r1, r2) /\ edits' <= MaxFairEdits
    \/ \E s \in QueryNodes, e \in QueryNodes : FindCall(s, e)
    \/ FindLoop
    \/ FindWalk
    \/ FindReturn

FairSpec ==
    /\ Init
    /\ [][FairNext]_vars
    /\ WF_vars(FindLoop) /\ WF_vars(FindWalk) /\ WF_vars(FindReturn)

(* ----------------------- vocabulary of the claims --------------------- *)

Nodes(g) == DOMAIN g

HasEdge(g, a, b) == a \in DOMAIN g /\ b \in DOMAIN g[a]

AllPositive(g) == \A a \in DOMAIN g : \A b \in DOMAIN g[a] : g[a][b] > 0

SetMin(S) == CHOOSE x \in S : \A y \in S : x <= y

\* the least total weight of a simple path from cur to end that avoids seen,
\* by trying every such path; Inf when there is none
RECURSIVE MinFrom(_, _, _, _)
MinFrom(g, cur, end, seen) ==
    IF cur = end THEN 0
    ELSE LET sums == {LET sub == MinFrom(g, nb, end, seen \cup {nb})
                      IN  IF sub = Inf THEN Inf ELSE g[cur][nb] + sub :
                         nb \in DOMAIN g[cur] \ seen}
         IN  IF sums = {} THEN Inf ELSE SetMin(sums)

MinSimple(g, start, end) == MinFrom(g, start, end, {start})

\* the nodes connected to the nodes of S
RECURSIVE Component(_, _)
Component(g, S) ==
    LET T == S \cup UNION {DOMAIN g[n] : n \in S}
    IN  IF T = S THEN S ELSE Component(g, T)

Reachable(g, start, end) == end \in Component(g, {start})

NoRepeat(p) == \A i \in 1..Len(p) : \A j \in 1..Len(p) : p[i] = p[j] => i = j

\* find_route's running total over the edges of the path (lines 269-274)
RECURSIVE PathTotal(_, _)
PathTotal(g, p) ==
    IF Len(p) <= 1 THEN 0
    ELSE PathTotal(g, SubSeq(p, 1, Len(p) - 1)) + g[p[Len(p) - 1]][p[Len(p)]]

\* dijkstra is about to return run.ret for the arguments run.start, run.end
Returning == run.pc = "done"

Sentinel == <<Inf, <<>>>>

(* ------------------------------ claims -------------------------------- *)

\* C1: on a graph of at most 8 nodes with strictly positive weights, for start
\* and end in the graph, the returned weight is the minimum total weight over
\* all simple paths from start to end, found by exhaustive search.
DistanceIsMinimum ==
    (/\ Returning
     /\ run.start \in Nodes(graph) /\ run.end \in Nodes(graph)
     /\ AllPositive(graph)
     /\ Cardinality(Nodes(graph)) <= 8)
    => run.ret[1] = MinSimple(graph, run.start, run.end)

\* the loop broke at end with entries left in the frontier, on an edited graph
\* whose shortest route has at least two edges
DistanceWitness ==
    /\ Returning
    /\ graph # DefaultGraph /\ AllPositive(graph)
    /\ run.pq # {}
    /\ Len(run.ret[2]) >= 3
    /\ run.ret[1] = MinSimple(graph, run.start, run.end)

\* C2 as stated: on the default graph dijkstra(A, F) returns weight 10 via
\* A, C, B, D, E, F.
SampleRouteIsTen ==
    (Returning /\ graph = DefaultGraph /\ run.start = A /\ run.end = F)
    => run.ret = <<10, <<A, C, B, D, E, F>>>>

\* C2 amended: on the default graph dijkstra(A, F) returns weight 12 via
\* A, C, B, D, E, F.
SampleRouteIsTwelve ==
    (Returning /\ graph = DefaultGraph /\ run.start = A /\ run.end = F)
    => run.ret = <<12, <<A, C, B, D, E, F>>>>

SampleRouteWitness ==
    /\ Returning /\ graph = DefaultGraph /\ run.start = A /\ run.end = F
    /\ run.ret[1] = 12

\* C3: b is a neighbor of a with weight w exactly when a is a neighbor of b
\* with weight w.
Symmetry ==
    \A a \in Nodes(graph) : \A b \in DOMAIN graph[a] :
        /\ b \in Nodes(graph)
        /\ a \in DOMAIN graph[b]
        /\ graph[b][a] = graph[a][b]

\* add_edge has made the new node G, and one with a self-loop, one of them
\* by a call with node1 = node2
SymmetryWitness ==
    /\ last.op = "add_edge"
    /\ G \in Nodes(graph)
    /\ \E n \in Nodes(graph) : HasEdge(graph, n, n) /\ HasEdge(graph, G, n)

\* C4 as stated: add_edge(a, b, w) with w <= 0 is rejected and leaves the
\* adjacency mapping unchanged.
AddEdgeRejectsNonPositive ==
    [][last'.op = "add_edge" =>
         \A n1 \in EditNodes, n2 \in EditNodes, w \in CoreWeights :
            (w <= 0 /\ AddEdge(n1, n2, w)) => graph' = graph]_vars

\* C4 amended: add_edge_handler with a weight that parses to w <= 0 shows an
\* error and leaves the adjacency mapping unchanged; add_edge itself does not
\* check the weight and stores w <= 0 in both directions.
HandlerRejectsNonPositive ==
    [][/\ last'.op = "add_edge_handler" =>
          \/ /\ graph' = graph
             /\ last'.msg \in {"Weight must be positive",
                               "Please enter both node names"}
          \/ \A ws \in WeightStrs :
                (IsFloat(Strip(ws)) /\ FloatOf(Strip(ws)) <= 0) =>
                   \A r1 \in RawNodes, r2 \in RawNodes : ~AddEdgeHandler(r1, r2, ws)
       /\ last'.op = "add_edge" =>
          \A n1 \in EditNodes, n2 \in EditNodes, w \in CoreWeights :
            w <= 0 =>
               \/ /\ HasEdge(graph', n1, n2) /\ graph'[n1][n2] = w
                  /\ HasEdge(graph', n2, n1) /\ graph'[n2][n1] = w
               \/ ~AddEdge(n1, n2, w)]_vars

HandlerRejectsWitness ==
    last.op = "add_edge_handler" /\ last.msg = "Weight must be positive"

\* C5: no node is its own neighbor.
NoSelfLoops == \A n \in Nodes(graph) : n \notin DOMAIN graph[n]

\* what remove_edge(a, b) leaves of g is h
RemovalPost(g, h, a, b) ==
    /\ a \in Nodes(h) => b \notin DOMAIN h[a]
    /\ b \in Nodes(h) => a \notin DOMAIN h[b]
    /\ Nodes(h) = Nodes(g)
    /\ \A x \in Nodes(g) :
          /\ DOMAIN h[x] \subseteq DOMAIN g[x]
          /\ \A y \in DOMAIN g[x] :
                {x, y} # {a, b} => y \in DOMAIN h[x] /\ h[x][y] = g[x][y]
    /\ ~HasEdge(g, a, b) => h = g

\* C6: after remove_edge(a, b) neither is a neighbor of the other, the node
\* set is unchanged, every other edge keeps its weight, and when the edge
\* was absent the mapping is unchanged.
RemovalFrame ==
    [][/\ last'.op = "remove_edge" =>
          \A a \in EditNodes, b \in EditNodes :
            RemoveEdge(a, b) => RemovalPost(graph, graph', a, b)
       /\ last'.op = "remove_edge_handler" =>
          \A r1 \in RawNodes, r2 \in RawNodes :
            (RemoveEdgeHandler(r1, r2) /\ last'.msg = "Edge removed successfully")
            => RemovalPost(graph, graph', Upper(Strip(r1)), Upper(Strip(r2)))]_vars

\* remove_edge has left a node with no neighbor, and the node is still there
RemovalWitness ==
    /\ last.op = "remove_edge"
    /\ \E n \in Nodes(graph) : DOMAIN graph[n] = {}

PathValid ==
    (Returning /\ AllPositive(graph) /\ run.ret[1] < Inf) =>
        LET d == run.ret[1]
            p == run.ret[2]
        IN  /\ p # <<>>
            /\ p[1] = run.start
            /\ p[Len(p)] = run.end
            /\ \A i \in 1..(Len(p) - 1) : HasEdge(graph, p[i], p[i + 1])
            /\ NoRepeat(p)
            /\ PathTotal(graph, p) = d

PathWitness ==
    /\ Returning /\ AllPositive(graph) /\ edits > 0
    /\ run.ret[1] < Inf
    /\ Len(run.ret[2]) >= 4
    /\ G \in {run.ret[2][i] : i \in 1..Len(run.ret[2])}

\* C9: for a node X of the graph dijkstra(X, X) returns weight 0 and the
\* path [X].
Reflexive ==
    (Returning /\ run.start = run.end /\ run.start \in Nodes(graph))
    => run.ret = <<0, <<run.start>>>>

\* X carries a self-loop
ReflexiveWitness ==
    /\ Returning /\ run.start = run.end
    /\ HasEdge(graph, run.start, run.start)
    /\ run.ret[1] = 0

\* every visited.add marked a new node; the walk is no longer than the node
\* set and repeats no node
DijkstraBounded ==
    /\ run.nadd = Cardinality(run.visited)
    /\ Len(run.path) <= Cardinality(Nodes(graph))
    /\ NoRepeat(run.path)

\* popping an entry of a visited node only drops the entry
StaleDiscarded ==
    (FindLoop /\ run.pq # {} /\ HeapMin(run.pq)[2] \in run.visited)
    => /\ run'.pq = run.pq \ {HeapMin(run.pq)}
       /\ run'.dist = run.dist /\ run'.parent = run.parent
       /\ run'.visited = run.visited /\ run'.pc = "loop"

\* C10: every dijkstra call returns; each node is marked visited at most
\* once, stale frontier entries are dropped without relaxing an edge, and the
\* parent walk takes at most |nodes| steps.
DijkstraTerminates ==
    /\ [](DijkstraBounded)
    /\ [][StaleDiscarded]_vars
    /\ (run.pc \in {"loop", "walk"}) ~> (run.pc = "done")

\* a stale entry is on top of the frontier of a graph with a self-loop
StaleWitness ==
    /\ run.pc = "loop" /\ run.pq # {}
    /\ HeapMin(run.pq)[2] \in run.visited
    /\ \E n \in Nodes(graph) : HasEdge(graph, n, n)

====
